---- MODULE Spec2Model ----
(***************************************************************************)
(* Model of dirtree.c: main builds a directory tree depth first            *)
(* (treePopulator), linearizes it breadth first into a print queue         *)
(* (createPrintQueue), prints and frees that queue (printPrintQueue) and   *)
(* releases the tree (chopTree).                                           *)
(*                                                                         *)
(* Strings are sequences of one-character strings; pointers are indices    *)
(* into the heaps below, NULL is 0.  The directory lister (opendir /       *)
(* readdir), the classifier (stat) and malloc are the environment: their   *)
(* results are chosen with \E.  Undefined behaviour (readdir(NULL), a read *)
(* of an unset struct stat, a write past a char[256], a use of a NULL      *)
(* allocation) is a choice over the outcomes a build can produce.          *)
(***************************************************************************)
EXTENDS Integers, Sequences, FiniteSets, TLC

\* ------------------------------------------------------------------ bounds
MaxNodes == 4        \* TreeNodes a run may create
MaxHidden == 1       \* dotfiles (besides . and ..) readdir may return in a run
MaxFaults == 1       \* failures of the run's kind the environment may produce

\* --------------------------------------------------------- program constants
PathBufSize == 256   \* char startPath[256], char childPath[256]
NULL == 0

DefaultPath ==
  <<"/", "h", "o", "m", "e", "/", "h", "a", "l", "9", "k", "/", "h", "o", "m",
    "e", "/", "n", "a", "l", "t", "i", "p", "a", "r", "/", "D", "o", "w", "n",
    "l", "o", "a", "d", "s", "/", "f", "i", "n", "a", "l", "-", "s", "r", "c">>

\* ------------------------------------------------------------ environment
\* What the environment does to a run.  Every run may have any tree of plain
\* entries; on top of that a run is of one kind:
\*   "dots"    readdir returns "." and ".." first, and up to MaxHidden dotfiles
\*   "opendir" up to MaxFaults opendir calls fail
\*   "stat"    up to MaxFaults stat calls fail
\*   "alloc"   up to MaxFaults malloc/strdup calls return NULL
\*   "long"    up to MaxFaults paths do not fit PathBufSize bytes
Envs == { "dots", "opendir", "stat", "alloc", "long" }

\* argv[argc-1] when argc > 1: "/" and "x"s, a character more than
\* startPath holds with its terminator.
LongArg == [i \in 1..PathBufSize |-> IF i = 1 THEN "/" ELSE "x"]

\* a d_name that makes DefaultPath/d_name a character too long
LongName == [i \in 1..(PathBufSize - Len(DefaultPath) - 1) |-> "y"]

DotNames == << <<".">>, <<".", ".">>, <<".", "h">> >>
PlainNames == { <<"a">>, <<"b">> }

\* d_name values readdir may return.
EntryNames == { DotNames[i] : i \in 1..Len(DotNames) } \cup PlainNames \cup { LongName }

\* what stat() reports: st_mode of a directory, of a regular file, of
\* another type, or a failure (-1, status left unset).
StatResults == { "dir", "reg", "other", "fail" }

\* which allocation of createTreeNode returns NULL, if any
NodeAllocs == { "ok", "node", "strdup", "llist" }

VARIABLES
  pc,          \* position in main: "main", "populate", "linearize", "cpqLoop",
               \* "cpqReturn", "print", "chop", "close", "done"; or "exited"
               \* (exit(-1)), "crashed" (killed by a signal)
  exitStatus,  \* how the process ended and the status byte it exited with
  env,         \* the kind of run (see Envs); never changes
  overrun,     \* a strcpy/strcat wrote past a 256-byte buffer
  tree,        \* heap of struct TreeNode, by creation order
  llist,       \* heap of struct LList; node n owns llist[n]
  frees,       \* per node: free() calls on the node, its name, its list
  listing,     \* per node: the d_names readdir returned for it, in order
  classified,  \* per node: "root", or what stat() said: "dir", "leaf", "fail"
  opened,      \* per node: "no" (never opened), "ok", "failed"
  tpStack,     \* treePopulator activations: [parentNode, directory, at]
  qnodes,      \* heap of struct QNode
  queues,      \* the two struct Queue: "print" and "toDo"
  treeClimber, \* createPrintQueue's cursor
  order,       \* printPrintQueue's locals
  prevLevel,
  stdout       \* what was printed, in order

vars == << pc, exitStatus, env, overrun, tree, llist, frees, listing,
           classified, opened, tpStack, qnodes, queues, treeClimber, order,
           prevLevel, stdout >>

buildVars == << tree, llist, frees, listing, classified, opened, tpStack >>
queueVars == << qnodes, queues, treeClimber >>
printVars == << order, prevLevel >>

\* the status a parent sees for exit(n): the low 8 bits of n
ExitByte(n) == n % 256

Last(s) == s[Len(s)]
Front(s) == SubSeq(s, 1, Len(s) - 1)

\* ------------------------------------------------------------ tree primitives

\* createLList: head and tail NULL.
createLList == [head |-> NULL, tail |-> NULL]

\* createTreeNode(name, lvl) when malloc succeeded; strdup may have returned
\* NULL, which the code stores unchecked.
createTreeNode(addr, name, lvl, alloc) ==
  [ fileName    |-> IF alloc = "strdup" THEN << >> ELSE name,
    nameNull    |-> (alloc = "strdup"),
    level       |-> lvl,
    nextSibling |-> NULL,
    children    |-> addr ]

\* The allocations of createTreeNode that end the run with exit(-1).
createTreeNodeExits(alloc) == alloc \in {"node", "llist"}

\* appendChild that puts the child at the head of the list
appendChildFront(t, l, parent, child) ==
  LET c == t[parent].children IN
  IF l[c].head = NULL /\ l[c].tail = NULL
    THEN [t |-> t, l |-> [l EXCEPT ![c] = [head |-> child, tail |-> child]]]
    ELSE [t |-> [t EXCEPT ![child].nextSibling = l[c].head],
          l |-> [l EXCEPT ![c].head = child]]

\* appendChild that links the child after the tail but leaves tail as it was
appendChildKeepsTail(t, l, parent, child) ==
  LET c == t[parent].children IN
  IF l[c].head = NULL /\ l[c].tail = NULL
    THEN [t |-> t, l |-> [l EXCEPT ![c] = [head |-> child, tail |-> child]]]
    ELSE [t |-> [t EXCEPT ![l[c].tail].nextSibling = child], l |-> l]

\* appendChild(parent, child) on the heaps t (nodes) and l (lists):
\* returns the updated pair.
appendChild(t, l, parent, child) ==
  LET c == t[parent].children IN
  IF l[c].head = NULL /\ l[c].tail = NULL
    THEN [t |-> t, l |-> [l EXCEPT ![c] = [head |-> child, tail |-> child]]]
    ELSE [t |-> [t EXCEPT ![l[c].tail].nextSibling = child],
          l |-> [l EXCEPT ![c].tail = child]]

\* the test without the strncmp clause: only "." and ".." are skipped
IsSkippedDotDirsOnly(name) ==
  \/ name = <<".">>
  \/ name = <<".", ".">>

\* strcmp(d_name, ".") == 0 || strcmp(d_name, "..") == 0
\*   || strncmp(d_name, ".", 1) == 0
IsSkipped(name) ==
  \/ name = <<".">>
  \/ name = <<".", ".">>
  \/ (Len(name) >= 1 /\ name[1] = ".")

\* the level given to a child with the parent's level unchanged
ChildLevelSame(parentLevel) == parentLevel

\* line 336: parentNode->level + 1
ChildLevel(parentLevel) == parentLevel + 1

\* strcpy(childPath, parent); strcat(childPath, "/"); strcat(childPath, d_name)
ChildPath(parentPath, name) == parentPath \o <<"/">> \o name

\* bytes a string needs in a buffer, terminator included
BytesOf(s) == Len(s) + 1

\* S_ISDIR(status.st_mode); unset is the value read when stat failed
S_ISDIR(st, unset) == IF st = "fail" THEN unset ELSE st = "dir"

\* free() calls so far on a new node, its name and its list; named tells
\* whether strdup returned a string
NoFrees(alloc) == [node |-> 0, name |-> 0, list |-> 0, named |-> alloc # "strdup"]

\* what the model remembers of a stat() result
KindOf(st) == IF st \in {"reg", "other"} THEN "leaf" ELSE st

IsLong(path) == BytesOf(path) > PathBufSize

\* ----------------------------------------------------- environment budgets
Nodes == 1..Len(tree)

\* failures of the run's kind produced so far
Faults ==
  CASE env = "opendir" -> Cardinality({ n \in Nodes : opened[n] = "failed" })
    [] env = "stat"    -> Cardinality({ n \in Nodes : classified[n] = "fail" })
    [] env = "alloc"   -> Cardinality({ n \in Nodes : tree[n].nameNull })
    [] env = "long"    -> Cardinality({ n \in Nodes : IsLong(tree[n].fileName) })
    [] OTHER           -> 0

MayFail(kind) == env = kind /\ Faults < MaxFaults

\* dotfiles readdir has returned so far
Hidden ==
  Cardinality({ n \in 1..Len(listing) :
                  \E i \in 1..Len(listing[n]) : listing[n][i] = DotNames[3] })

Listed(n, e) == \E i \in 1..Len(listing[n]) : listing[n][i] = e

\* In a "dots" run a listing starts with "." and "..".
DotsDone(n) == env = "dots" => (Listed(n, DotNames[1]) /\ Listed(n, DotNames[2]))

Init ==
  /\ pc = "main"
  /\ exitStatus = [how |-> "running", code |-> 0]
  /\ env \in Envs
  /\ overrun = FALSE
  /\ tree = << >>
  /\ llist = << >>
  /\ frees = << >>
  /\ listing = << >>
  /\ classified = << >>
  /\ opened = << >>
  /\ tpStack = << >>
  /\ qnodes = << >>
  /\ queues = [q \in {"print", "toDo"} |->
                 [lastIn |-> NULL, firstOut |-> NULL, live |-> FALSE, freed |-> 0]]
  /\ treeClimber = NULL
  /\ order = 0
  /\ prevLevel = 0
  /\ stdout = << >>

\* exit(-1) after the "memory was found to be unallocatable" message
Exit(msg) ==
  /\ pc' = "exited"
  /\ exitStatus' = [how |-> "exit", code |-> ExitByte(-1)]
  /\ stdout' = Append(stdout, [kind |-> "diag", text |-> msg])

\* the process is killed by a signal
Crash ==
  /\ pc' = "crashed"
  /\ exitStatus' = [how |-> "signal", code |-> 0]

\* main, lines 82-92: copy the start path (argv[argc-1] or the default) into
\* startPath, create the root, call treePopulator.
Main ==
  /\ pc = "main"
  /\ \E path \in {LongArg, DefaultPath}, alloc \in NodeAllocs, survives \in BOOLEAN :
       /\ (survives \/ IsLong(path))
       /\ (IsLong(path) => env = "long" /\ 0 < MaxFaults)
       /\ (alloc # "ok" => env = "alloc" /\ 0 < MaxFaults)
       /\ overrun' = IsLong(path)
       /\ IF ~survives
            THEN /\ Crash
                 /\ UNCHANGED << buildVars, stdout >>
          ELSE IF createTreeNodeExits(alloc)
            THEN /\ Exit("node")
                 /\ UNCHANGED buildVars
          ELSE /\ tree' = << createTreeNode(1, path, 1, alloc) >>
               /\ llist' = << createLList >>
               /\ frees' = << NoFrees(alloc) >>
               /\ listing' = << << >> >>
               /\ classified' = << "root" >>
               /\ opened' = << "no" >>
               /\ tpStack' = << [parentNode |-> 1, directory |-> "unset", at |-> "open"] >>
               /\ pc' = "populate"
               /\ UNCHANGED << exitStatus, stdout >>
  /\ UNCHANGED << env, queueVars, printVars >>

\* ------------------------------------------------------------ treePopulator
TopFrame == Last(tpStack)
SetTop(f) == [tpStack EXCEPT ![Len(tpStack)] = f]

\* lines 311-314: opendir(parentNode->fileName); a NULL result is reported
\* on stdout and the function goes on.  opendir(NULL) is undefined: it
\* crashes or fails.
OpenDir ==
  /\ pc = "populate"
  /\ tpStack # << >>
  /\ TopFrame.at = "open"
  /\ LET n == TopFrame.parentNode IN
     \E ok \in BOOLEAN, survives \in BOOLEAN :
       /\ (tree[n].nameNull => ~ok)
       /\ (survives \/ tree[n].nameNull)
       /\ (ok \/ tree[n].nameNull \/ classified[n] = "fail" \/ MayFail("opendir"))
       /\ IF ~survives
            THEN /\ Crash
                 /\ UNCHANGED << opened, tpStack, stdout >>
            ELSE /\ opened' = [opened EXCEPT ![n] = IF ok THEN "ok" ELSE "failed"]
                 /\ tpStack' = SetTop([TopFrame EXCEPT
                                         !.directory = IF ok THEN "open" ELSE "null",
                                         !.at = "loop"])
                 /\ stdout' = IF ok THEN stdout
                              ELSE Append(stdout, [kind |-> "diag", text |-> "awry"])
                 /\ UNCHANGED << pc, exitStatus >>
  /\ UNCHANGED << env, overrun, tree, llist, frees, listing, classified,
                  queueVars, printVars >>

\* line 316 with directory == NULL: readdir(NULL) is undefined; it crashes
\* or returns NULL (EBADF), which ends the loop.
ReadDirNull ==
  /\ pc = "populate"
  /\ tpStack # << >>
  /\ TopFrame.at = "loop"
  /\ TopFrame.directory = "null"
  /\ \/ /\ Crash
        /\ UNCHANGED tpStack
     \/ /\ tpStack' = SetTop([TopFrame EXCEPT !.at = "close"])
        /\ UNCHANGED << pc, exitStatus >>
  /\ UNCHANGED << env, overrun, tree, llist, frees, listing, classified, opened,
                  stdout, queueVars, printVars >>

\* line 316: readdir returns NULL, the listing is over.
ReadDirEnd ==
  /\ pc = "populate"
  /\ tpStack # << >>
  /\ TopFrame.at = "loop"
  /\ TopFrame.directory = "open"
  /\ DotsDone(TopFrame.parentNode)
  /\ tpStack' = SetTop([TopFrame EXCEPT !.at = "close"])
  /\ UNCHANGED << pc, exitStatus, env, overrun, tree, llist, frees, listing,
                  classified, opened, stdout, queueVars, printVars >>

\* lines 316-323: readdir returns an entry the loop skips.
ReadDirSkip ==
  /\ pc = "populate"
  /\ tpStack # << >>
  /\ TopFrame.at = "loop"
  /\ TopFrame.directory = "open"
  /\ env = "dots"
  /\ LET n == TopFrame.parentNode IN
       \E i \in 1..Len(DotNames) :
         /\ ~Listed(n, DotNames[i])
         /\ \A j \in 1..2 : j < i => Listed(n, DotNames[j])
         /\ (i = 3 => Hidden < MaxHidden)
         /\ IsSkipped(DotNames[i])
         /\ listing' = [listing EXCEPT ![n] = Append(@, DotNames[i])]
  /\ UNCHANGED << pc, exitStatus, env, overrun, tree, llist, frees,
                  classified, opened, tpStack, stdout, queueVars, printVars >>

\* lines 316-345: readdir returns an entry the loop keeps: build its path,
\* stat it, create its node, append it, and call treePopulator on it when
\* S_ISDIR says so.
ReadDirEntry ==
  /\ pc = "populate"
  /\ tpStack # << >>
  /\ TopFrame.at = "loop"
  /\ TopFrame.directory = "open"
  /\ Len(tree) < MaxNodes
  /\ DotsDone(TopFrame.parentNode)
  /\ LET n == TopFrame.parentNode IN
       \E e \in EntryNames, st \in StatResults, unset \in BOOLEAN,
          alloc \in NodeAllocs, survives \in BOOLEAN :
            LET path  == ChildPath(tree[n].fileName, e)
                child == Len(tree) + 1
                t1    == Append(tree, createTreeNode(child, path, ChildLevel(tree[n].level), alloc))
                l1    == Append(llist, createLList)
                g     == appendChild(t1, l1, n, child)
            IN
            /\ ~Listed(n, e)
            /\ ~IsSkipped(e)
            /\ (e = LongName => env = "long")
            /\ (survives \/ IsLong(path))
            /\ (IsLong(path) => MayFail("long"))
            /\ (unset => st = "fail")
            /\ (st = "fail" => MayFail("stat"))
            /\ (alloc # "ok" => MayFail("alloc"))
            /\ overrun' = (overrun \/ IsLong(path))
            /\ listing' = Append([listing EXCEPT ![n] = Append(@, e)], << >>)
            /\ IF ~survives
                 THEN /\ Crash
                      /\ UNCHANGED << tree, llist, frees, classified,
                                      opened, tpStack, stdout >>
               ELSE IF createTreeNodeExits(alloc)
                 THEN /\ Exit("node")
                      /\ UNCHANGED << tree, llist, frees, classified,
                                      opened, tpStack >>
               ELSE /\ tree' = g.t
                    /\ llist' = g.l
                    /\ frees' = Append(frees, NoFrees(alloc))
                    /\ classified' = Append(classified, KindOf(st))
                    /\ opened' = Append(opened, "no")
                    /\ tpStack' =
                         IF S_ISDIR(st, unset)
                           THEN Append(tpStack,
                                  [parentNode |-> g.l[g.t[n].children].tail,
                                   directory |-> "unset", at |-> "open"])
                           ELSE tpStack
                    /\ UNCHANGED << pc, exitStatus, stdout >>
  /\ UNCHANGED << env, queueVars, printVars >>

\* line 347: closedir(directory) and return; main goes on to createPrintQueue
\* when the outermost call returns.
CloseDir ==
  /\ pc = "populate"
  /\ tpStack # << >>
  /\ TopFrame.at = "close"
  /\ tpStack' = Front(tpStack)
  /\ pc' = IF Len(tpStack) = 1 THEN "linearize" ELSE pc
  /\ UNCHANGED << exitStatus, env, overrun, tree, llist, frees, listing,
                  classified, opened, stdout, queueVars, printVars >>

treePopulator == OpenDir \/ ReadDirNull \/ ReadDirEnd \/ ReadDirSkip \/ ReadDirEntry \/ CloseDir

\* ------------------------------------------------------------ queue primitives

\* createQNode: wrap a tree node; queuePrev NULL.  freed counts free() calls.
createQNode(node) == [dataSource |-> node, queuePrev |-> NULL, freed |-> 0]

\* createQueue: both ends NULL.
createQueue == [lastIn |-> NULL, firstOut |-> NULL, live |-> TRUE, freed |-> 0]

\* enQueue with the new cell put at the out end of the queue
enQueueFront(qn, q, tNode) ==
  LET qNode == Len(qn) + 1
      qn1   == Append(qn, [createQNode(tNode) EXCEPT !.queuePrev = q.firstOut])
  IN [qn |-> qn1,
      q  |-> [q EXCEPT !.firstOut = qNode,
                       !.lastIn = IF q.lastIn = NULL THEN qNode ELSE @]]

\* enQueue that does not link the old last cell to the new one
enQueueNoLink(qn, q, tNode) ==
  LET qNode == Len(qn) + 1
      qn1   == Append(qn, createQNode(tNode))
  IN IF q.lastIn = NULL
       THEN [qn |-> qn1, q |-> [q EXCEPT !.firstOut = qNode, !.lastIn = qNode]]
       ELSE [qn |-> qn1, q |-> [q EXCEPT !.lastIn = qNode]]

\* enQueue(queue, tNode) on the QNode heap qn and the queue header q.
enQueue(qn, q, tNode) ==
  LET qNode == Len(qn) + 1
      qn1   == Append(qn, createQNode(tNode))
  IN IF q.lastIn = NULL
       THEN [qn |-> qn1, q |-> [q EXCEPT !.firstOut = qNode, !.lastIn = qNode]]
       ELSE [qn |-> [qn1 EXCEPT ![q.lastIn].queuePrev = qNode],
             q  |-> [q EXCEPT !.lastIn = qNode]]

\* deQueue that takes a queue of one cell for an empty one
deQueueEmptyAtOne(qn, q) ==
  IF q.firstOut = NULL \/ q.lastIn = q.firstOut
    THEN [qn |-> Append(qn, createQNode(NULL)), q |-> q, cell |-> Len(qn) + 1]
  ELSE [qn |-> qn, q |-> [q EXCEPT !.firstOut = qn[q.firstOut].queuePrev],
        cell |-> q.firstOut]

\* deQueue that leaves lastIn pointing at the final cell it hands out
deQueueKeepsLastIn(qn, q) ==
  IF q.firstOut = NULL
    THEN [qn |-> Append(qn, createQNode(NULL)), q |-> q, cell |-> Len(qn) + 1]
  ELSE IF q.lastIn = q.firstOut
    THEN [qn |-> qn, q |-> [q EXCEPT !.firstOut = NULL], cell |-> q.firstOut]
  ELSE [qn |-> qn, q |-> [q EXCEPT !.firstOut = qn[q.firstOut].queuePrev],
        cell |-> q.firstOut]

\* deQueue(queue): the cell returned and the heaps after the call.  On an
\* empty queue a fresh cell with dataSource NULL is allocated and returned.
deQueue(qn, q) ==
  IF q.firstOut = NULL
    THEN [qn |-> Append(qn, createQNode(NULL)), q |-> q, cell |-> Len(qn) + 1]
  ELSE IF q.lastIn = q.firstOut
    THEN [qn |-> qn, q |-> [q EXCEPT !.firstOut = NULL, !.lastIn = NULL],
          cell |-> q.firstOut]
  ELSE [qn |-> qn, q |-> [q EXCEPT !.firstOut = qn[q.firstOut].queuePrev],
        cell |-> q.firstOut]

\* free(p) on the QNode heap; free(NULL) does nothing.
freeQNode(qn, p) == IF p = NULL THEN qn ELSE [qn EXCEPT ![p].freed = @ + 1]

\* the inner loop run once only: the first child is enqueued, its siblings
\* are not
enQueueFirstChild(qn, q, branchClimber) ==
  IF branchClimber = NULL THEN [qn |-> qn, q |-> q]
  ELSE LET e == enQueue(qn, q, branchClimber) IN [qn |-> e.qn, q |-> e.q]

\* lines 260-263: branchClimber enqueues treeClimber's children
RECURSIVE enQueueSiblings(_, _, _)
enQueueSiblings(qn, q, branchClimber) ==
  IF branchClimber = NULL THEN [qn |-> qn, q |-> q]
  ELSE LET e == enQueue(qn, q, branchClimber)
       IN enQueueSiblings(e.qn, e.q, tree[branchClimber].nextSibling)

\* ------------------------------------------------------------ createPrintQueue

\* lines 250-253: the two createQueue calls and the locals.
CPQInit ==
  /\ pc = "linearize"
  /\ \E failed \in BOOLEAN :
       /\ (failed => MayFail("alloc"))
       /\ IF failed
            THEN /\ Exit("queue")
                 /\ UNCHANGED queueVars
            ELSE /\ queues' = [q \in {"print", "toDo"} |-> createQueue]
                 /\ treeClimber' = 1
                 /\ pc' = "cpqLoop"
                 /\ UNCHANGED << qnodes, exitStatus, stdout >>
  /\ UNCHANGED << env, overrun, buildVars, printVars >>

\* lines 256-269: one pass of the outer while loop.  failed: "qnode" when a
\* createQNode malloc returns NULL (exit), "sentinel" when deQueue's unchecked
\* malloc does (the write through NULL kills the process).
CPQStep ==
  /\ pc = "cpqLoop"
  /\ treeClimber # NULL
  /\ LET p == enQueue(qnodes, queues["print"], treeClimber)
         c == enQueueSiblings(p.qn, queues["toDo"],
                              llist[tree[treeClimber].children].head)
         d == deQueue(c.qn, c.q)
     IN
     \E failed \in {"no", "qnode", "sentinel"} :
       /\ (failed # "no" => MayFail("alloc"))
       /\ (failed = "sentinel" => c.q.firstOut = NULL)
       /\ CASE failed = "qnode" ->
                 /\ Exit("qnode")
                 /\ UNCHANGED queueVars
            [] failed = "sentinel" ->
                 /\ Crash
                 /\ UNCHANGED << queueVars, stdout >>
            [] OTHER ->
                 /\ treeClimber' = d.qn[d.cell].dataSource
                 /\ qnodes' = freeQNode(d.qn, d.cell)
                 /\ queues' = [queues EXCEPT !["print"] = p.q, !["toDo"] = d.q]
                 /\ pc' = IF d.qn[d.cell].dataSource = NULL THEN "cpqReturn" ELSE pc
                 /\ UNCHANGED << exitStatus, stdout >>
  /\ UNCHANGED << env, overrun, buildVars, printVars >>

\* lines 270-278: free what toDoQueue still points to, free it, return.
CPQReturn ==
  /\ pc = "cpqReturn"
  /\ LET toDo == queues["toDo"]
         qn1  == freeQNode(qnodes, toDo.firstOut)
         qn2  == freeQNode(qn1, toDo.lastIn)
     IN /\ qnodes' = qn2
        /\ queues' = [queues EXCEPT !["toDo"] =
                        [toDo EXCEPT !.firstOut = NULL, !.lastIn = NULL,
                                     !.freed = @ + 1]]
  /\ pc' = "print"
  /\ UNCHANGED << exitStatus, env, overrun, buildVars, treeClimber, printVars,
                  stdout >>

createPrintQueue == CPQInit \/ CPQStep \/ CPQReturn

\* ------------------------------------------------------------ printPrintQueue

\* what printf's %s shows for a NULL pointer when it does not crash
NullText == <<"(", "n", "u", "l", "l", ")">>

\* the running position never reset
NextOrderNoReset(level, prev, ord) == ord + 1

\* the running position: reset when the level changes, then incremented
NextOrder(level, prev, ord) == (IF level # prev THEN 0 ELSE ord) + 1

\* printf("%d:%d:%s\n", level, order, fileName): one line of stdout
Line(node, level, ord, name) ==
  [kind |-> "line", node |-> node, level |-> level, order |-> ord, fileName |-> name]

\* a do-while loop that never sees its queue empty
MorePrintingAlways(q) == TRUE

\* line 300: while (printQueue->lastIn != NULL)
MorePrinting(q) == q.lastIn # NULL

\* lines 287-303: one pass of the do-while loop, and after the last pass the
\* free of the queue.  The cell deQueue returns is dereferenced unchecked:
\* a NULL dataSource kills the process; a NULL fileName given to %s is
\* undefined (printed as "(null)", or a crash).
PrintStep ==
  /\ pc = "print"
  /\ LET d  == deQueue(qnodes, queues["print"])
         ds == d.qn[d.cell].dataSource
     IN
     \E survives \in BOOLEAN :
       /\ IF ds = NULL THEN ~survives ELSE (survives \/ tree[ds].nameNull)
       /\ IF ~survives
            THEN /\ Crash
                 /\ UNCHANGED << qnodes, queues, printVars, stdout >>
            ELSE LET level == tree[ds].level
                     ord   == NextOrder(level, prevLevel, order)
                     name  == IF tree[ds].nameNull THEN NullText ELSE tree[ds].fileName
                 IN /\ order' = ord
                    /\ prevLevel' = level
                    /\ stdout' = Append(stdout, Line(ds, level, ord, name))
                    /\ qnodes' = freeQNode([d.qn EXCEPT ![d.cell].queuePrev = NULL], d.cell)
                    /\ IF MorePrinting(d.q)
                         THEN /\ queues' = [queues EXCEPT !["print"] = d.q]
                              /\ UNCHANGED << pc, exitStatus >>
                         ELSE /\ queues' = [queues EXCEPT !["print"] =
                                              [d.q EXCEPT !.freed = @ + 1]]
                              /\ pc' = "chop"
                              /\ UNCHANGED exitStatus
  /\ UNCHANGED << env, overrun, buildVars, treeClimber >>

printPrintQueue == PrintStep

\* ------------------------------------------------------------ chopTree

\* free(p) counted in field what of node n's record
freeOf(f, n, what) == [f EXCEPT ![n][what] = @ + 1]

\* chopTree without the breadth recursion: siblings are never visited
RECURSIVE chopTreeNoSiblings(_, _)
chopTreeNoSiblings(h, root) ==
  IF root = NULL THEN h
  ELSE
    LET c  == h.t[root].children
        h1 == IF c # NULL /\ h.l[c].head # NULL
                THEN chopTreeNoSiblings(h, h.l[c].head) ELSE h
        f1 == IF c # NULL THEN freeOf(h1.f, c, "list") ELSE h1.f
        f2 == IF h1.t[root].nameNull THEN f1 ELSE freeOf(f1, root, "name")
    IN [ t |-> [h1.t EXCEPT ![root].children = NULL,
                            ![root].nextSibling = NULL,
                            ![root].nameNull = TRUE],
         l |-> h1.l,
         f |-> freeOf(f2, root, "node") ]

\* chopTree, lines 160-168: free(root->children), free(root->name), free(root)
\* on the heaps h left by the two recursive calls
freeTreeNode(h, root) ==
  LET c  == h.t[root].children
      f1 == IF c # NULL THEN freeOf(h.f, c, "list") ELSE h.f
      f2 == IF h.t[root].nameNull THEN f1 ELSE freeOf(f1, root, "name")
  IN [ t |-> [h.t EXCEPT ![root].children = NULL,
                         ![root].nextSibling = NULL,
                         ![root].nameNull = TRUE],
       l |-> h.l,
       f |-> freeOf(f2, root, "node") ]

\* chopTree(root) on the heaps h = [t, l, f] (nodes, lists, free counts):
\* the heaps after the call.  h1 is the heaps after the depth recursion, h2
\* after the breadth recursion; each is bound once, as the value of a
\* singleton set, so that it is computed once.
RECURSIVE chopTree(_, _)
chopTree(h, root) ==
  IF root = NULL THEN h
  ELSE
    CHOOSE r \in
      { freeTreeNode(h2, root) :
          h2 \in { IF h1.t[root].nextSibling # NULL
                     THEN chopTree(h1, h1.t[root].nextSibling) ELSE h1 :
                   h1 \in { IF h.t[root].children # NULL /\ h.l[h.t[root].children].head # NULL
                              THEN chopTree(h, h.l[h.t[root].children].head) ELSE h } } } : TRUE

\* main with chopTree(root) called before printPrintQueue(rootQueue)
ChopTreeBeforePrint ==
  /\ pc = "print"
  /\ frees[1].node = 0
  /\ LET h == chopTree([t |-> tree, l |-> llist, f |-> frees], 1)
     IN /\ tree' = h.t
        /\ llist' = h.l
        /\ frees' = h.f
  /\ UNCHANGED << pc, exitStatus, env, overrun, listing, classified, opened, tpStack,
                  queueVars, printVars, stdout >>

\* main, line 99: chopTree(root)
ChopTree ==
  /\ pc = "chop"
  /\ \E h \in { chopTree([t |-> tree, l |-> llist, f |-> frees], 1) } :
        /\ tree' = h.t
        /\ llist' = h.l
        /\ frees' = h.f
  /\ pc' = "close"
  /\ UNCHANGED << exitStatus, env, overrun, listing, classified, opened, tpStack,
                  queueVars, printVars, stdout >>

\* main, lines 100-109: close the streams, getchar, return 0
Return ==
  /\ pc = "close"
  /\ pc' = "done"
  /\ exitStatus' = [how |-> "exit", code |-> ExitByte(0)]
  /\ UNCHANGED << env, overrun, buildVars, queueVars, printVars, stdout >>

Next == Main \/ treePopulator \/ createPrintQueue \/ printPrintQueue \/ ChopTree \/ Return

Spec == Init /\ [][Next]_vars

\* The program is one thread that runs until it returns, exits or is killed:
\* a step that can be taken is taken.
FairSpec == Spec /\ WF_vars(Next)

\* ------------------------------------------------------------ one Queue alone
\* enQueue and deQueue called in any order on one Queue (the to-visit queue's
\* header), with any TreeNode pointers as data.  The caller frees each cell
\* deQueue returns, as createPrintQueue and printPrintQueue do.

\* the most QNode cells ever allocated
MaxCells == MaxNodes

QInit ==
  /\ pc = "queue"
  /\ exitStatus = [how |-> "running", code |-> 0]
  /\ env = "dots"
  /\ overrun = FALSE
  /\ tree = << >>
  /\ llist = << >>
  /\ frees = << >>
  /\ listing = << >>
  /\ classified = << >>
  /\ opened = << >>
  /\ tpStack = << >>
  /\ qnodes = << >>
  /\ queues = [q \in {"print", "toDo"} |-> createQueue]
  /\ treeClimber = NULL
  /\ order = 0
  /\ prevLevel = 0
  /\ stdout = << >>

\* enQueue(queue, tNode)
QEnq ==
  /\ pc = "queue"
  /\ Len(qnodes) < MaxCells
  /\ \E tNode \in 1..MaxNodes :
       LET e == enQueue(qnodes, queues["toDo"], tNode)
       IN /\ qnodes' = e.qn
          /\ queues' = [queues EXCEPT !["toDo"] = e.q]
  /\ UNCHANGED << pc, exitStatus, env, overrun, buildVars, treeClimber, printVars,
                  stdout >>

\* temp = deQueue(queue); ... free(temp)
QDeq ==
  /\ pc = "queue"
  /\ IF queues["toDo"].firstOut = NULL THEN Len(qnodes) < MaxCells ELSE TRUE
  /\ LET d == deQueue(qnodes, queues["toDo"])
     IN /\ qnodes' = freeQNode(d.qn, d.cell)
        /\ queues' = [queues EXCEPT !["toDo"] = d.q]
  /\ UNCHANGED << pc, exitStatus, env, overrun, buildVars, treeClimber, printVars,
                  stdout >>

QNext == QEnq \/ QDeq

QueueSpec == QInit /\ [][QNext]_vars

\* ================================================================ properties

IsLine(x) == x.kind = "line"

\* the lines printPrintQueue has printed, in order
Lines == SelectSeq(stdout, IsLine)

\* printPrintQueue has returned
Printed == pc \in {"chop", "close", "done"}

\* the tree is built and not yet released
TreeBuilt == pc \in {"linearize", "cpqLoop", "cpqReturn", "print", "chop"}

\* the nodes from n along nextSibling
RECURSIVE SiblingChain(_)
SiblingChain(n) == IF n = NULL THEN << >> ELSE <<n>> \o SiblingChain(tree[n].nextSibling)

\* the children list of node p, in list order
ChildrenOf(p) == SiblingChain(llist[tree[p].children].head)

IndexIn(seq, x) == CHOOSE i \in 1..Len(seq) : seq[i] = x

IsChildOf(n, p) == \E i \in 1..Len(ChildrenOf(p)) : ChildrenOf(p)[i] = n

ParentOf(n) == CHOOSE p \in Nodes : IsChildOf(n, p)

\* the index of node n's line
PosOf(n) == CHOOSE i \in 1..Len(Lines) : Lines[i].node = n

\* C1: once printPrintQueue has returned, stdout holds exactly one line per
\* tree node (as many lines as nodes, each node on exactly one line, with the
\* node's level and, where the node has a name, its path); a tree of the
\* root alone gives the single line 1:1:<path>.
C1_OneLinePerNode ==
  Printed =>
    /\ Len(Lines) = Len(tree)
    /\ \A n \in Nodes : Cardinality({ i \in 1..Len(Lines) : Lines[i].node = n }) = 1
    /\ \A i \in 1..Len(Lines) :
         /\ Lines[i].node \in Nodes
         /\ Lines[i].level = tree[Lines[i].node].level
         /\ frees[Lines[i].node].named =>
              Lines[i].fileName = tree[Lines[i].node].fileName
    /\ Len(tree) = 1 => (Lines[1].level = 1 /\ Lines[1].order = 1 /\ Lines[1].node = 1)

\* a tree of four nodes, two of them on one level, has been printed
C1_Witness ==
  /\ pc = "chop"
  /\ Len(tree) = 4
  /\ Len(Lines) = 4
  /\ \E n \in Nodes : Len(ChildrenOf(n)) = 2

C3_Positions ==
  \A i \in 1..Len(Lines) :
    Lines[i].order = Cardinality({ j \in 1..i : Lines[j].level = Lines[i].level })

\* two nodes of one level were printed and then a node of the next level
C3_Witness ==
  /\ Printed
  /\ \E i, j \in 1..Len(Lines) :
       /\ i < j
       /\ Lines[i].order = 2
       /\ Lines[j].level = Lines[i].level + 1
       /\ Lines[j].order = 1

\* the process is still executing main
Alive == pc \notin {"exited", "crashed"}

HasDiag == \E i \in 1..Len(stdout) : stdout[i].kind = "diag"

\* C4: a directory that opendir could not open does not end the run: the
\* process is not killed, and once the tree is printed the directory's node
\* has its line.
C4_OpendirFailureRecovered ==
  \A n \in Nodes :
    opened[n] = "failed" =>
      /\ pc # "crashed"
      /\ Printed => \E i \in 1..Len(Lines) : Lines[i].node = n

\* C5: an entry whose stat failed is a leaf: treePopulator is never called on
\* it, and a diagnostic has been printed.
C5_StatFailureIsLeaf ==
  \A n \in Nodes :
    classified[n] = "fail" =>
      /\ opened[n] = "no"
      /\ \A k \in 1..Len(tpStack) : tpStack[k].parentNode # n
      /\ HasDiag

\* C6: in a run where allocations fail the process is never killed by a use
\* of a NULL allocation result and never goes on with a node whose name is
\* a NULL strdup result; it ends with exit and a non-zero status.
C6_AllocFailureExits ==
  env = "alloc" =>
    /\ pc # "crashed"
    /\ \A n \in Nodes : frees[n].named
    /\ pc = "exited" => exitStatus.code # 0

\* C7: after chopTree(root) every node, every child list and every name that
\* strdup returned has been freed exactly once; before it nothing of the tree
\* has been freed.
C7_TreeFreedOnce ==
  /\ pc \in {"close", "done"} =>
       \A n \in Nodes :
         /\ frees[n].node = 1
         /\ frees[n].list = 1
         /\ frees[n].name = (IF frees[n].named THEN 1 ELSE 0)
  /\ pc \notin {"close", "done"} =>
       \A n \in Nodes : frees[n].node = 0 /\ frees[n].list = 0 /\ frees[n].name = 0

\* a tree with a node that has two children and a node of level 3 was released
C7_Witness ==
  /\ pc = "done"
  /\ Len(tree) = 4
  /\ \E n \in Nodes : tree[n].level = 3
  /\ \E i, j \in 1..Len(Lines) : i # j /\ Lines[i].level = 2 /\ Lines[j].level = 2

\* C8: no QNode and no Queue is ever freed twice, and when printPrintQueue
\* has returned every QNode allocated (the cell deQueue makes for the empty
\* queue included) and both Queues have been freed exactly once.
C8_QueueFreedOnce ==
  /\ \A c \in 1..Len(qnodes) : qnodes[c].freed <= 1
  /\ \A q \in {"print", "toDo"} : queues[q].freed <= 1
  /\ Printed =>
       /\ \A c \in 1..Len(qnodes) : qnodes[c].freed = 1
       /\ \A q \in {"print", "toDo"} : queues[q].live /\ queues[q].freed = 1

\* printPrintQueue returned after a run that allocated cells for four nodes
\* in each queue role and the cell for the empty queue
C8_Witness ==
  /\ pc = "chop"
  /\ Len(tree) = 4
  /\ \E c \in 1..Len(qnodes) : qnodes[c].dataSource = NULL
  /\ Len(qnodes) = 8

\* the last component of a path: what follows its last "/"
LastSlash(path) == CHOOSE k \in 1..Len(path) :
                     path[k] = "/" /\ \A m \in (k + 1)..Len(path) : path[m] # "/"
BaseName(path) == SubSeq(path, LastSlash(path) + 1, Len(path))

BeginsWithDot(name) == Len(name) >= 1 /\ name[1] = "."

\* the entries of a listing that do not begin with "."
Visible(ls) == SelectSeq(ls, LAMBDA e : ~BeginsWithDot(e))

\* C9: no node below the root and no printed line has a path whose last
\* component begins with ".", and a node has exactly as many children as
\* readdir returned entries not beginning with "." for it.
C9_NoDotEntries ==
  /\ \A n \in Nodes :
       (n # 1 /\ frees[n].named /\ TreeBuilt) => ~BeginsWithDot(BaseName(tree[n].fileName))
  /\ \A i \in 1..Len(Lines) :
       (Lines[i].node # 1 /\ frees[Lines[i].node].named) =>
          ~BeginsWithDot(BaseName(Lines[i].fileName))
  /\ (Alive /\ pc \in {"populate"} \cup {"linearize", "cpqLoop", "cpqReturn", "print", "chop"}) =>
       \A n \in Nodes : Len(ChildrenOf(n)) = Len(Visible(listing[n]))

\* a printed tree one of whose directories listed ".", ".." and a dotfile
\* besides an entry that was kept
C9_Witness ==
  /\ pc = "chop"
  /\ \E n \in Nodes :
       /\ Listed(n, <<".">>) /\ Listed(n, <<".", ".">>) /\ Listed(n, <<".", "h">>)
       /\ Len(ChildrenOf(n)) >= 1

\* C10: a path that does not fit the 256-byte buffers is never copied into
\* one and never stored in a node: the buffers are never written past their
\* end.
C10_LongPathFailsExplicitly ==
  /\ ~overrun
  /\ \A n \in Nodes : frees[n].named => ~IsLong(tree[n].fileName)

\* the tree's pointers are those the build made: the process is in main
\* between the creation of the root and the call of chopTree
TreeIntact == pc \in {"populate", "linearize", "cpqLoop", "cpqReturn", "print", "chop"}

\* C11: the children list of a node holds, in order, one node for each entry
\* not beginning with "." that readdir returned for the node, with the path
\* parent path + "/" + entry name, and a later entry's node is later in the
\* list.
C11_ChildrenAreListing ==
  TreeIntact =>
    \A n \in Nodes :
      LET kids == ChildrenOf(n)
          vis  == Visible(listing[n])
      IN /\ Len(kids) = Len(vis)
         /\ \A i \in 1..Len(kids) :
              frees[kids[i]].named =>
                tree[kids[i]].fileName = ChildPath(tree[n].fileName, vis[i])
         /\ \A i, j \in 1..Len(kids) : i < j => kids[i] < kids[j]

\* a directory listed "b" before "a", with skipped entries, and has the two
\* as its children
C11_Witness ==
  /\ pc = "chop"
  /\ \E n \in Nodes :
       /\ Visible(listing[n]) = << <<"b">>, <<"a">> >>
       /\ Len(listing[n]) > 2
       /\ Len(ChildrenOf(n)) = 2

\* something of the tree has been freed
SomeTreeFree ==
  \E n \in Nodes : frees[n].node > 0 \/ frees[n].name > 0 \/ frees[n].list > 0

\* C12: main runs build, linearize, print, release in this order: while
\* treePopulator, createPrintQueue or printPrintQueue run nothing of the
\* tree has been freed (so they read no freed node), each starts when the one
\* before has returned, and once something of the tree is freed every line
\* has been printed and the print queue is gone.
C12_StrictSequence ==
  /\ pc \in {"populate", "linearize", "cpqLoop", "cpqReturn", "print"} => ~SomeTreeFree
  /\ pc \in {"linearize", "cpqLoop", "cpqReturn", "print", "chop", "close", "done"} =>
       tpStack = << >>
  /\ pc \in {"populate", "linearize"} => (qnodes = << >> /\ stdout \in Seq([kind : {"diag"}, text : {"awry"}]))
  /\ pc \in {"cpqLoop", "cpqReturn"} => Lines = << >>
  /\ pc \in {"print", "chop", "close", "done"} => queues["toDo"].freed = 1
  /\ SomeTreeFree =>
       /\ pc \in {"close", "done"}
       /\ Len(Lines) = Len(tree)
       /\ queues["print"].freed = 1

\* the tree was released after three or more lines were printed
C12_Witness ==
  /\ pc = "close"
  /\ frees[1].node = 1
  /\ Len(tree) >= 3
  /\ Len(Lines) = Len(tree)

\* the root has level 1 and every other node is on the children list of a
\* node whose level is one less
LevelsRight ==
  /\ Len(tree) >= 1 => tree[1].level = 1
  /\ \A n \in Nodes :
       n # 1 => \E p \in Nodes : IsChildOf(n, p) /\ tree[n].level = tree[p].level + 1

\* no step changes the level of a node
LevelsKept == \A n \in Nodes : tree'[n].level = tree[n].level

\* C13: while the tree is built and until chopTree is called the root has
\* level 1 and every other node has its parent's level plus 1, and no step,
\* chopTree included, changes a node's level.
C13_Levels == [](pc \notin {"close", "done"} => LevelsRight) /\ [][LevelsKept]_vars

\* a tree with nodes of levels 1, 2 and 3 was built and released
C13_Witness ==
  /\ pc = "done"
  /\ \E n, m \in Nodes : tree[n].level = 2 /\ tree[m].level = 3

\* treePopulator has been called on node n
Populated(n) == opened[n] # "no" \/ \E k \in 1..Len(tpStack) : tpStack[k].parentNode = n

\* every activation of treePopulator but the first works on the last child
\* of the one below it: the caller reads no further entry until it returns
NestedOnLastChild ==
  \A k \in 1..(Len(tpStack) - 1) :
    tpStack[k + 1].parentNode = llist[tree[tpStack[k].parentNode].children].tail

\* C14: treePopulator is called on a child only when stat reported a
\* directory; the call returns before the parent reads its next entry; a
\* child reported as a regular file or another type has no children.
C14_RecursesOnlyIntoDirectories ==
  /\ \A n \in Nodes : (n # 1 /\ Populated(n)) => classified[n] = "dir"
  /\ (pc = "populate" => NestedOnLastChild)
  /\ TreeIntact => \A n \in Nodes : classified[n] = "leaf" => ChildrenOf(n) = << >>

\* the process has ended: main returned, exit was called, or a signal came
Terminated == pc \in {"done", "exited", "crashed"}

IsSentinel(c) == qnodes[c].dataSource = NULL

\* createPrintQueue's loop goes on with a node to visit and has allocated no
\* cell for the empty queue; it is left with no node to visit, the to-visit
\* queue empty and the cell for the empty queue the last one allocated
LoopEndsOnEmpty ==
  /\ pc = "cpqLoop" =>
       /\ treeClimber # NULL
       /\ \A c \in 1..Len(qnodes) : ~IsSentinel(c)
  /\ pc = "cpqReturn" =>
       /\ treeClimber = NULL
       /\ queues["toDo"].firstOut = NULL
       /\ queues["toDo"].lastIn = NULL
       /\ Len(qnodes) >= 1 /\ IsSentinel(Len(qnodes))

\* C15: every run ends (main returns, or the process exits or is killed), so
\* treePopulator, createPrintQueue, printPrintQueue and chopTree each return
\* or end the process; createPrintQueue leaves its loop exactly when deQueue
\* found the to-visit queue empty.
C15_Terminates ==
  /\ <>Terminated
  /\ (pc = "populate") ~> (pc # "populate")
  /\ (pc = "cpqLoop") ~> (pc # "cpqLoop")
  /\ (pc = "print") ~> (pc # "print")
  /\ (pc = "chop") ~> (pc # "chop")
  /\ []LoopEndsOnEmpty

\* main returned after a tree of four nodes was built, printed and released
C15_Witness ==
  /\ pc = "done"
  /\ exitStatus.how = "exit"
  /\ Len(tree) = 4
  /\ \A n \in Nodes : frees[n].node = 1

\* ---------------------------------------------------------------- C16

\* the cells enQueue made, by address (addresses grow in the order of the calls)
Enqueued == { i \in 1..Len(qnodes) : qnodes[i].dataSource # NULL }

\* the cells enqueued and not yet handed out by deQueue
Pending == { i \in Enqueued : qnodes[i].freed = 0 }

\* the numbers of S in increasing order
RECURSIVE Ascending(_)
Ascending(S) ==
  IF S = {} THEN << >>
  ELSE LET m == CHOOSE x \in S : \A y \in S : x <= y
       IN <<m>> \o Ascending(S \ {m})

\* the cells from c along queuePrev, at most k of them
RECURSIVE QueueChain(_, _)
QueueChain(c, k) ==
  IF c = NULL \/ k = 0 THEN << >>
  ELSE <<c>> \o QueueChain(qnodes[c].queuePrev, k - 1)

\* the queue's cells from firstOut on
InQueue == QueueChain(queues["toDo"].firstOut, Len(qnodes) + 1)

QueueShape ==
  /\ (queues["toDo"].firstOut = NULL) <=> (queues["toDo"].lastIn = NULL)
  /\ InQueue = Ascending(Pending)
  /\ IF InQueue = << >> THEN queues["toDo"].lastIn = NULL
                        ELSE queues["toDo"].lastIn = Last(InQueue)

\* a cell handed out by deQueue is the oldest pending one, with the data it
\* was enqueued with
HandsOutOldest ==
  /\ \A i \in Pending : qnodes'[i].freed # 0 => \A j \in Pending : i <= j
  /\ \A i \in Enqueued : qnodes'[i].dataSource = qnodes[i].dataSource

\* C16: after any sequence of enQueue and deQueue calls on one Queue,
\* firstOut is NULL exactly when lastIn is NULL, the queue holds the pending
\* cells in the order they were enqueued, and deQueue hands out the oldest
\* pending cell: first in, first out, also after the queue was emptied and
\* refilled.
C16_QueueIsFIFO == []QueueShape /\ [][HandsOutOldest]_vars

\* cell i was the queue's only cell when handed out (the queue became empty),
\* j was enqueued after that and handed out too, and a cell is still pending
C16_Witness ==
  /\ pc = "queue"
  /\ Pending # {}
  /\ \E i, j \in Enqueued :
       /\ i < j
       /\ qnodes[i].freed = 1 /\ qnodes[i].queuePrev = NULL
       /\ qnodes[j].freed = 1 /\ qnodes[j].queuePrev # NULL

\* ---------------------------------------------------------------- C17

\* the cells deQueue made on finding a queue empty
Sentinels == { c \in 1..Len(qnodes) : qnodes[c].dataSource = NULL }

\* C17: whenever printPrintQueue is about to call deQueue, the print queue is
\* not empty and its first cell holds a node (the root at the first call), so
\* the cell dereferenced never has a NULL dataSource; the only cell with a
\* NULL dataSource is the one deQueue gave createPrintQueue.
C17_PrintNeverDequeuesEmpty ==
  /\ pc = "print" =>
       /\ queues["print"].firstOut # NULL
       /\ queues["print"].lastIn # NULL
       /\ qnodes[queues["print"].firstOut].dataSource # NULL
       /\ Lines = << >> => qnodes[queues["print"].firstOut].dataSource = 1
  /\ pc \in {"print", "chop", "close", "done"} => Cardinality(Sentinels) = 1
  /\ \A i \in 1..Len(stdout) : IsLine(stdout[i]) => stdout[i].node # NULL

\* printPrintQueue has returned after printing a root with two children
C17_Witness ==
  /\ pc = "chop"
  /\ Len(Lines) = 3
  /\ Len(ChildrenOf(1)) = 2
  /\ queues["print"].firstOut = NULL

\* ---------------------------------------------------------------- C18

\* node n's child list is well formed
ListShape(n) ==
  LET c == tree[n].children IN
  /\ c # NULL
  /\ (llist[c].head = NULL) <=> (llist[c].tail = NULL)
  /\ llist[c].head # NULL =>
       /\ Last(ChildrenOf(n)) = llist[c].tail
       /\ tree[llist[c].tail].nextSibling = NULL
       /\ \A i \in 1..Len(ChildrenOf(n)) : ChildrenOf(n)[i] # 1

\* C18: until chopTree runs, every child list has head NULL exactly when tail
\* is NULL, the nextSibling chain from head ends at tail, and tail's
\* nextSibling is NULL; the root's nextSibling is NULL in every state and the
\* root is in no child list, so chopTree(root) follows sibling links only
\* inside the root's subtree.
C18_ChildListShape ==
  /\ pc \notin {"close", "done"} => \A n \in Nodes : ListShape(n)
  /\ Len(tree) >= 1 => tree[1].nextSibling = NULL

\* appendChild has been called three times on one list
C18_Witness ==
  /\ pc = "chop"
  /\ Len(ChildrenOf(1)) = 3
  /\ llist[tree[1].children].tail = ChildrenOf(1)[3]

====
